---- MODULE Spec2Model ----
(***************************************************************************)
(* Model of wikipediaapi: the lazy attribute-group resolver of             *)
(* WikipediaPage (__getattr__, the accessors, _fetch), the group fetchers  *)
(* of Wikipedia (_structured, _info, _langlinks, _links, _backlinks,       *)
(* _categories, _categorymembers) with their pagination loops, the         *)
(* section-tree builder (_build_structured) and the natlang HtmlParser.    *)
(*                                                                         *)
(* Text is a sequence of tokens.  A token is a record [k, level, title]:   *)
(*   k = "t"  one character of text (title holds it; " " is whitespace)    *)
(*   k = "s"  a start tag  (title holds the tag name)                      *)
(*   k = "e"  an end tag   (title holds the tag name)                      *)
(*   k = "h"  one whole match of the heading pattern, of the given level   *)
(*            and raw title                                                *)
(* An offset is a number of tokens, so match.start() of the heading at     *)
(* index i (1-based) is i-1 and match.end() is i.                          *)
(***************************************************************************)
EXTENDS Integers, Sequences, FiniteSets, TLC

VARIABLES
    \* ---- WikipediaPage (wikipedia.py 656-692)
    _called,            \* page._called: group -> BOOLEAN
    _attributes,        \* page._attributes: name -> value
    _summary,           \* page._summary (text)
    _sections,          \* page._sections: ids of the page's direct children
    _section_mapping,   \* page._section_mapping: title -> section id
    _section_titles,    \* page._section_titles
    _langlinks,         \* page._langlinks: keys of the dict
    _links,             \* page._links: keys of the dict
    _backlinks,         \* page._backlinks: keys of the dict
    _categories,        \* page._categories: keys of the dict
    _categorymembers,   \* page._categorymembers: keys of the dict
    nodes,              \* the WikipediaPageSection objects, by id 1..n
    \* ---- Wikipedia (wikipedia.py 109-144)
    extract_format,
    \* ---- the remote wiki behind self._query
    wiki_titles,        \* the titles its lists of links and members draw on
    \* ---- the accessor that is running and the group fetch it waits in
    pc,                 \* "idle" | "waiting" (a request is out) | "building"
    cur,                \* the running accessor: [op, name, call]
    params,             \* continuation parameter of the request that is out
    v,                  \* the items accumulated by the running fetch
    \* ---- locals of _build_structured (wikipedia.py 415-417)
    extract,            \* extract['extract']
    section_stack,
    section,
    prev_pos,
    nmatch,             \* number of matches of re.finditer consumed so far
    \* ---- natlang_html_cleanup (wikipedia.py 102-105) run on its own
    rawdata,            \* the fragment fed to the parser, as its events
    parser,             \* the HtmlParser: [parts, include_stack, err]
    fed,                \* number of events of rawdata the handlers have seen
    \* ---- history (not program state)
    invoked,            \* group -> number of times wiki._<group> was entered
    requests,           \* continuation parameter of each request of the last fetch
    responses,          \* continuation token of each response of the last fetch
    pages,              \* item titles of each response of the last fetch
    notfound,           \* groups that resolved on a response with page key -1
    result              \* outcome of the last accessor: [op, name, kind, value]

vars == << _called, _attributes, _summary, _sections, _section_mapping,
           _section_titles, _langlinks, _links, _backlinks, _categories,
           _categorymembers, nodes, extract_format, wiki_titles, pc, cur,
           params, v,
           extract, section_stack, section, prev_pos, nmatch,
           rawdata, parser, fed,
           invoked, requests, responses, pages, notfound, result >>

envVars == << extract_format, wiki_titles >>
pageVars == << _called, _attributes, _langlinks, _links, _backlinks,
               _categories, _categorymembers >>
treeVars == << _summary, _sections, _section_mapping, _section_titles, nodes >>
buildVars == << extract, section_stack, section, prev_pos, nmatch >>
filterVars == << rawdata, parser, fed >>
histVars == << invoked, requests, responses, pages, notfound >>

-----------------------------------------------------------------------------
(* Bounds *)

MaxBody == 4        \* longest extract, in tokens
MaxLevel == 4       \* deepest heading level <h1>..<hMaxLevel>
MaxCont == 2        \* most responses of one fetch that carry a continuation
MaxItems == 1       \* most items in one response
MaxHtml == 5        \* events of a fragment fed to the parser on its own
MaxInvoked == 2     \* invocations of one group that are counted

-----------------------------------------------------------------------------
(* Tokens and text *)

Txt(c) == [k |-> "t", level |-> 0, title |-> c]
StartTag(t) == [k |-> "s", level |-> 0, title |-> t]
EndTag(t) == [k |-> "e", level |-> 0, title |-> t]
StartEndTag(t) == [k |-> "b", level |-> 0, title |-> t]
Heading(l, t) == [k |-> "h", level |-> l, title |-> t]

Chars == {"x", " "}
Tags == {"math", "p"}
HeadingTitles == {"A", "B"}

NL == Txt("\n")

\* the characters str.strip removes
IsSpace(tok) == tok.k = "t" /\ tok.title \in {" ", "\n"}

\* Python's s[a:b] for 0 <= a, b <= len(s)
Slice(s, a, b) == SubSeq(s, a + 1, b)

RECURSIVE LStrip(_)
LStrip(s) ==
    IF s = << >> THEN s
    ELSE IF IsSpace(Head(s)) THEN LStrip(Tail(s)) ELSE s

RECURSIVE RStrip(_)
RStrip(s) ==
    IF s = << >> THEN s
    ELSE IF IsSpace(s[Len(s)]) THEN RStrip(SubSeq(s, 1, Len(s) - 1)) ELSE s

\* str.strip (wikipedia.py 127): the cleanup of the WIKI and HTML formats
Strip(s) == RStrip(LStrip(s))

-----------------------------------------------------------------------------
(* natlang.HtmlParser (natlang.py 4-28).  A parser is [parts, include_stack,
   err]; err names the exception that ended the feed, "ok" if none. *)

NewParser == [parts |-> << >>, include_stack |-> << TRUE >>, err |-> "ok"]

\* a start tag handler for which no tag excludes its region
handle_starttag_all(p, tag) ==
    IF p.include_stack = << >>
    THEN [p EXCEPT !.err = "IndexError"]
    ELSE [p EXCEPT !.include_stack = Append(@, @[Len(@)])]

\* a start tag handler whose other regions do not inherit the flag
handle_starttag_fresh(p, tag) ==
    IF p.include_stack = << >> /\ tag # "math"
    THEN [p EXCEPT !.err = "IndexError"]
    ELSE [p EXCEPT !.include_stack = Append(@, tag # "math")]

\* natlang.py 10-15
handle_starttag(p, tag) ==
    IF tag = "math"
    THEN [p EXCEPT !.include_stack = Append(@, FALSE)]
    ELSE IF p.include_stack = << >>
         THEN [p EXCEPT !.err = "IndexError"]
         ELSE [p EXCEPT !.include_stack = Append(@, @[Len(@)])]

\* natlang.py 17-18: list.pop() of an empty list raises
handle_endtag(p, tag) ==
    IF p.include_stack = << >>
    THEN [p EXCEPT !.err = "IndexError"]
    ELSE [p EXCEPT !.include_stack = SubSeq(@, 1, Len(@) - 1)]

\* natlang.py 20-21: HTMLParser calls handle_startendtag(tag, attrs) for
\* <tag/>; the override takes one argument less, so the call raises
handle_startendtag(p, tag) == [p EXCEPT !.err = "TypeError"]

\* natlang.py 23-25: include_stack[-1] of an empty list raises
handle_data(p, data) ==
    IF p.include_stack = << >>
    THEN [p EXCEPT !.err = "IndexError"]
    ELSE IF p.include_stack[Len(p.include_stack)]
         THEN [p EXCEPT !.parts = Append(@, Txt(data))]
         ELSE p

\* One token handed to the handlers by HTMLParser.feed.  A heading inside the
\* fed text is its tag pair around its title.
HandleToken(p, tok) ==
    CASE tok.k = "t" -> handle_data(p, tok.title)
      [] tok.k = "s" -> handle_starttag(p, tok.title)
      [] tok.k = "e" -> handle_endtag(p, tok.title)
      [] tok.k = "b" -> handle_startendtag(p, tok.title)
      [] tok.k = "h" ->
            LET p1 == handle_starttag(p, "h")
                p2 == IF p1.err = "ok" THEN handle_data(p1, tok.title) ELSE p1
            IN  IF p2.err = "ok" THEN handle_endtag(p2, "h") ELSE p2

\* HTMLParser.feed: the handlers run in document order until one raises
RECURSIVE feed(_, _)
feed(p, html) ==
    IF html = << >> \/ p.err # "ok" THEN p
    ELSE feed(HandleToken(p, Head(html)), Tail(html))

\* natlang.py 27-28
get_text(p) == p.parts

\* wikipedia.py 102-105
natlang_html_cleanup(html) ==
    LET nl == feed(NewParser, html)
    IN  [err |-> nl.err, text |-> IF nl.err = "ok" THEN get_text(nl) ELSE << >>]

\* self.cleanup as chosen by Wikipedia.__init__ (wikipedia.py 127, 141-142)
cleanup(fmt, s) ==
    IF fmt = "NATLANG" THEN natlang_html_cleanup(s)
    ELSE [err |-> "ok", text |-> Strip(s)]

-----------------------------------------------------------------------------
(* The heading matcher: re.finditer(self.pattern, extract['extract'])
   (wikipedia.py 419-422).  A match is the index of a heading token. *)

Matches(e) ==
    SelectSeq([i \in 1..Len(e) |-> i], LAMBDA i : e[i].k = "h")

\* wikipedia.py 456-464: the section of a match, before it gets an id
_create_section(fmt, tok) ==
    LET t == cleanup(fmt, << Txt(tok.title) >>)
    IN  [err |-> t.err,
         sec |-> [title |-> t.text, level |-> tok.level - 1,
                  text |-> << >>, sections |-> << >>]]

\* wikipedia.py 424: the summary counts as not yet set while it is ''
SummaryUnset(s) == s = << >>

\* a reconciliation that pops one entry too many before it pushes
ReconcileDeep(stack, sec_level, id) ==
    LET n == IF sec_level > Len(stack) THEN 0
             ELSE Len(stack) - sec_level + 2
    IN  IF n > Len(stack)
        THEN [err |-> "IndexError", stack |-> << >>]
        ELSE [err |-> "ok",
              stack |-> Append(SubSeq(stack, 1, Len(stack) - n), id)]

\* a reconciliation that, for a level below the length of the stack, pops
\* until the stack has as many entries as the level, and then pushes
ReconcileShallow(stack, sec_level, id) ==
    IF sec_level > Len(stack)
    THEN [err |-> "ok", stack |-> Append(stack, id)]
    ELSE IF sec_level = Len(stack)
    THEN [err |-> "ok", stack |-> Append(SubSeq(stack, 1, Len(stack) - 1), id)]
    ELSE [err |-> "ok", stack |-> Append(SubSeq(stack, 1, sec_level), id)]

\* wikipedia.py 432-440: the stack after the new section is pushed
Reconcile(stack, sec_level, id) ==
    IF sec_level > Len(stack)
    THEN [err |-> "ok", stack |-> Append(stack, id)]
    ELSE IF sec_level = Len(stack)
    THEN IF stack = << >>
         THEN [err |-> "IndexError", stack |-> stack]
         ELSE [err |-> "ok",
               stack |-> Append(SubSeq(stack, 1, Len(stack) - 1), id)]
    ELSE LET n == Len(stack) - sec_level + 1
         IN  IF n > Len(stack)
             THEN [err |-> "IndexError", stack |-> << >>]
             ELSE [err |-> "ok",
                   stack |-> Append(SubSeq(stack, 1, Len(stack) - n), id)]

\* Python's list[i] for -len <= i < len
PyIndex(s, i) == IF i >= 0 THEN s[i + 1] ELSE s[Len(s) + i + 1]

\* an append to the top of the stack, which is the new section itself
TopOf(stack) == PyIndex(stack, Len(stack) - 1)

\* wikipedia.py 442: the element the new section is appended to (0: the page)
ParentOf(stack) == PyIndex(stack, Len(stack) - 2)

-----------------------------------------------------------------------------
(* WikipediaPage: the static tables and the values a response can carry *)

Groups == {"structured", "info", "langlinks", "links", "backlinks",
           "categories", "categorymembers"}

\* wikipedia.py 630-654.  contentmodel stands for the nineteen attributes
\* that only the info group supplies.
ATTRIBUTES_MAPPING ==
    [language     |-> << >>,
     pageid       |-> << "info", "structured", "langlinks" >>,
     ns           |-> << "info", "structured", "langlinks" >>,
     title        |-> << "info", "structured", "langlinks" >>,
     contentmodel |-> << "info" >>]

InfoAttributes == {"contentmodel"}

\* a name that is not a key of ATTRIBUTES_MAPPING
Unmapped == {"redirects"}

\* the page key of a title the remote does not know (wikipedia.py 178, 218)
MissingKey == "-1"
\* the page key, and the identifier, of the page the fixture knows
\* (tests/extract_natlang_format_test.py 23)
KnownKey == "4"
KnownId == 4

\* the continuation token of the i-th response that carries one
Token(i) == << "c1", "c2", "c3", "c4" >>[i]
NoToken == ""

\* dict.update
Merge(f, g) ==
    [x \in DOMAIN f \cup DOMAIN g |-> IF x \in DOMAIN g THEN g[x] ELSE f[x]]

\* wikipedia.py 563-577
_common_attributes(ext, attrs) ==
    LET common == {"title", "pageid", "ns", "redirects"} \cap DOMAIN ext
    IN  Merge(attrs, [a \in common |-> ext[a]])

\* a fetcher that leaves the identifier alone when the page key is '-1'
MissingForgotten(attrs) == attrs

\* wikipedia.py 179, 219, 249, 278, 346: the page key is '-1'
MissingAttributes(attrs) == Merge(attrs, [pageid |-> -1])

\* an accumulation that keeps only the items of the last response
Overwrite(old, new) == new

\* wikipedia.py 287, 319, 379: v[<items>] += raw[...][<items>]
Accumulate(old, new) == old \o new

\* wikipedia.py 466-475
_build_info(ext, attrs) == Merge(_common_attributes(ext, attrs), ext)

\* the entry of raw['query']['pages'] of a title the remote knows / does not
\* know; only a known page carries an identifier
KnownPage == [pageid |-> KnownId, ns |-> 0, title |-> "Test 1"]
MissingPage == [ns |-> 0, title |-> "Test_1", missing |-> ""]

\* the lists of at most n items over S
RECURSIVE ListsUpTo(_, _)
ListsUpTo(S, n) ==
    IF n = 0 THEN {<< >>}
    ELSE LET shorter == ListsUpTo(S, n - 1)
         IN  shorter \cup {Append(l, x) : l \in shorter, x \in S}

\* the extracts the remote serves for the page: plain text, a summary and
\* one section, and markup whose end tag has no start tag
Extracts ==
    { << Txt("x") >>,
      << Txt("x"), Heading(2, "A"), Txt("x") >>,
      << EndTag("p"), Txt("x"), Heading(2, "A") >> }

Formats == {"WIKI", "HTML", "NATLANG"}

NoCur == [op |-> "none", name |-> "", title |-> << >>, call |-> "none"]
NoResult == [op |-> "none", name |-> "", title |-> << >>, kind |-> "none",
             value |-> 0, nreq |-> 0]

Range(f) == {f[x] : x \in DOMAIN f}

EmptyMap == [x \in {} |-> 0]

\* the entries of ItemLists: what the remote lists for a link, a backlink, a
\* category or a category member
Item(t) == [ns |-> 0, title |-> t, pageid |-> KnownId]
Langlink(l) == [lang |-> l, star |-> "Test 1", url |-> "u"]

\* WikipediaPage(wiki, title, ns, language) of wikipedia.py 502-507, 518-523,
\* 535-540, 551-557, 484-490: a fresh page, of which only the identity is known
PageRef(title, ns, language) ==
    [title |-> title, ns |-> ns, language |-> language]

\* the last element of items whose key is x
LastWith(items, key(_), x) ==
    items[CHOOSE i \in DOMAIN items :
            /\ key(items[i]) = x
            /\ \A j \in DOMAIN items : key(items[j]) = x => j <= i]

\* wikipedia.py 501-507, 517-523, 534-540: page._<coll>[item['title']] = page
BuildPages(coll, items, language) ==
    Merge(coll,
          [t \in {items[i].title : i \in DOMAIN items} |->
              LET it == LastWith(items, LAMBDA x : x.title, t)
              IN  PageRef(it.title, it.ns, language)])

\* wikipedia.py 550-559: the member page also carries its identifier
BuildMembers(coll, items, language) ==
    Merge(coll,
          [t \in {items[i].title : i \in DOMAIN items} |->
              LET it == LastWith(items, LAMBDA x : x.title, t)
              IN  [title |-> it.title, ns |-> it.ns, language |-> language,
                   pageid |-> it.pageid]])

\* wikipedia.py 483-491: page._langlinks[p.language] = p
BuildLanglinks(coll, items) ==
    Merge(coll,
          [l \in {items[i].lang : i \in DOMAIN items} |->
              LET it == LastWith(items, LAMBDA x : x.lang, l)
              IN  [title |-> it.star, ns |-> 0, language |-> it.lang,
                   fullurl |-> it.url]])

-----------------------------------------------------------------------------
(* The Document Text Reconstructor: WikipediaPage.text (wikipedia.py 732-753) *)

\* self.wiki.combine_sections (wikipedia.py 128, 144)
combine_sections(fmt, title, level) ==
    IF fmt = "HTML"
    THEN << [k |-> "s", level |-> level, title |-> "h"] >> \o title
            \o << [k |-> "e", level |-> level, title |-> "h"] >>
    ELSE title

\* wikipedia.py 738-749; fuel bounds the depth of the recursion, which Python
\* ends with a RecursionError
RECURSIVE combine(_, _, _, _, _)
combine(fmt, nds, secs, level, fuel) ==
    IF secs = << >> THEN [err |-> "ok", text |-> << >>]
    ELSE IF fuel = 0 THEN [err |-> "RecursionError", text |-> << >>]
    ELSE LET sec == nds[Head(secs)]
             own == combine_sections(fmt, sec.title, level) \o << NL >>
                    \o sec.text
                    \o (IF Len(sec.text) > 0 THEN << NL, NL >> ELSE << >>)
             sub == combine(fmt, nds, sec.sections, level + 1, fuel - 1)
             rest == combine(fmt, nds, Tail(secs), level, fuel)
         IN  IF sub.err # "ok" THEN sub
             ELSE IF rest.err # "ok" THEN rest
             ELSE [err |-> "ok", text |-> own \o sub.text \o rest.text]

\* wikipedia.py 734-753, once the structured group is there
text_of(fmt, summ, secs, nds) ==
    LET txt == IF Len(summ) > 0 THEN summ \o << NL, NL >> ELSE summ
        c == combine(fmt, nds, secs, 2, Len(nds) + 1)
    IN  [err |-> c.err, text |-> Strip(txt \o c.text)]

-----------------------------------------------------------------------------
(* Outcomes of an accessor: a value, None, or the exception raised *)

Value(x) == [kind |-> "value", value |-> x]
NoneValue == [kind |-> "None", value |-> 0]
Raised(e) == [kind |-> e, value |-> 0]

\* nreq: the number of requests the accessor made
Outcome(op, name, title, o, nreq) ==
    [op |-> op, name |-> name, title |-> title, kind |-> o.kind,
     value |-> o.value, nreq |-> nreq]

\* a loop that takes the last group of the list that is not called yet
LastUncalled(calls) ==
    IF \E i \in DOMAIN calls : ~_called[calls[i]]
    THEN calls[CHOOSE i \in DOMAIN calls :
                 /\ ~_called[calls[i]]
                 /\ \A j \in DOMAIN calls : ~_called[calls[j]] => j <= i]
    ELSE "none"

\* the first group of the list that is not called yet, "none" if there is none
\* (the loop of wikipedia.py 701-702)
FirstUncalled(calls) ==
    IF \E i \in DOMAIN calls : ~_called[calls[i]]
    THEN calls[CHOOSE i \in DOMAIN calls :
                 /\ ~_called[calls[i]]
                 /\ \A j \in DOMAIN calls : ~_called[calls[j]] => i <= j]
    ELSE "none"

\* a __getattr__ that never looks into the cache
NeverCached(name) == FALSE

\* wikipedia.py 698: the attribute is in the cache
IsCached(name) == name \in DOMAIN _attributes

\* the group __getattr__(name) fetches, "none" if it fetches nothing
\* (wikipedia.py 695-703)
GetattrCall(name) ==
    IF name \notin DOMAIN ATTRIBUTES_MAPPING THEN "none"
    ELSE IF IsCached(name) THEN "none"
    ELSE FirstUncalled(ATTRIBUTES_MAPPING[name])

\* what __getattr__(name) gives when it fetches nothing (wikipedia.py 695-699
\* and the fall through of the loop of 701)
GetattrNow(name) ==
    IF name \notin DOMAIN ATTRIBUTES_MAPPING THEN Raised("AttributeError")
    ELSE IF IsCached(name) THEN Value(_attributes[name])
    ELSE NoneValue

\* what __getattr__(name) gives after its _fetch (wikipedia.py 704)
GetattrFetched(name) ==
    IF name \in DOMAIN _attributes THEN Value(_attributes[name])
    ELSE Raised("KeyError")

\* an existence check against 0 instead of -1
ExistsOfZero(o) ==
    CASE o.kind = "value" -> Value(o.value # 0)
      [] o.kind = "None" -> Value(TRUE)
      [] OTHER -> o

\* wikipedia.py 707 applied to the outcome of self.pageid
ExistsOf(o) ==
    CASE o.kind = "value" -> Value(o.value # -1)
      [] o.kind = "None" -> Value(TRUE)
      [] OTHER -> o

\* the return expression of each accessor, its group being called
\* (wikipedia.py 713, 719, 725, 730, 734-753, 759, 765, 771, 777, 783, 788)
Returned(op, title) ==
    CASE op = "summary" -> Value(_summary)
      [] op = "sections" -> Value(_sections)
      [] op = "section_titles" -> Value(_section_titles)
      [] op = "section_by_title" ->
            IF title \in DOMAIN _section_mapping
            THEN Value(_section_mapping[title]) ELSE Raised("KeyError")
      [] op = "text" ->
            LET t == text_of(extract_format, _summary, _sections, nodes)
            IN  IF t.err = "ok" THEN Value(t.text) ELSE Raised(t.err)
      [] op = "langlinks" -> Value(_langlinks)
      [] op = "links" -> Value(_links)
      [] op = "backlinks" -> Value(_backlinks)
      [] op = "categories" -> Value(_categories)
      [] op = "categorymembers" -> Value(_categorymembers)
      [] op = "_fetch" -> Value("self")

\* the outcome of the accessor that waited for a group, in the state the
\* group left
AfterFetch(op, name, title) ==
    CASE op = "__getattr__" -> GetattrFetched(name)
      [] op = "exists" -> ExistsOf(GetattrFetched("pageid"))
      [] OTHER -> Returned(op, title)

-----------------------------------------------------------------------------
(* The steps every accessor is made of *)

\* a call has returned or raised: the locals of the group fetcher and of
\* _build_structured are gone, and with them the history of their requests
LocalsGone ==
    /\ params' = NoToken
    /\ v' = << >>
    /\ extract' = << >>
    /\ section_stack' = << >>
    /\ section' = 0
    /\ prev_pos' = 0
    /\ nmatch' = 0
    /\ requests' = << >>
    /\ responses' = << >>
    /\ pages' = << >>

\* the accessor returns (or raises) without a fetch
Finish(op, name, title, o) ==
    /\ pc = "idle"
    /\ result' = Outcome(op, name, title, o, 0)
    /\ UNCHANGED << pageVars, treeVars, buildVars, histVars, envVars, filterVars,
                    pc, cur, params, v >>

\* the accessor enters self._fetch(call) and wiki._<call> sends its first
\* request (wikipedia.py 785-786 and the first self._query of the group)
Enter(op, name, title, call) ==
    /\ pc = "idle"
    /\ invoked[call] < MaxInvoked
    /\ pc' = "waiting"
    /\ cur' = [op |-> op, name |-> name, title |-> title, call |-> call]
    /\ invoked' = [invoked EXCEPT ![call] = @ + 1]
    /\ requests' = << NoToken >>
    /\ result' = Outcome(op, name, title, [kind |-> "pending", value |-> 0], 1)
    /\ UNCHANGED << pageVars, treeVars, buildVars, envVars, filterVars, notfound,
                    params, v, responses, pages >>

\* an accessor that needs the group call (wikipedia.py 711-712 and alike)
Access(op, title, call) ==
    IF _called[call]
    THEN Finish(op, "", title, Returned(op, title))
    ELSE Enter(op, "", title, call)

\* the flag _fetch sets (wikipedia.py 787)
MarkCalled(called, call) == [called EXCEPT ![call] = TRUE]

\* wiki._<call> has returned: the rest of _fetch (wikipedia.py 787-788) and of
\* the accessor that called it.  To be the last conjunct of its action.
_fetch(call) ==
    /\ _called' = MarkCalled(_called, call)
    /\ pc' = "idle"
    /\ cur' = NoCur
    /\ LocalsGone
    /\ \E op \in {cur.op}, name \in {cur.name}, title \in {cur.title} :
          result' = Outcome(op, name, title, AfterFetch(op, name, title)',
                            Len(requests))

\* an exception that would leave _fetch after its line 787
RaiseMarked(e) ==
    /\ pc' = "idle"
    /\ cur' = NoCur
    /\ LocalsGone
    /\ result' = Outcome(cur.op, cur.name, cur.title, Raised(e), Len(requests))
    /\ _called' = MarkCalled(_called, cur.call)

\* an exception leaves wiki._<call>, _fetch and the accessor
Raise(e) ==
    /\ pc' = "idle"
    /\ cur' = NoCur
    /\ LocalsGone
    /\ result' = Outcome(cur.op, cur.name, cur.title, Raised(e), Len(requests))
    /\ UNCHANGED _called

-----------------------------------------------------------------------------
(* The accessors of WikipediaPage *)

\* wikipedia.py 694-704
__getattr__ ==
    /\ pc = "idle"
    /\ \E name \in DOMAIN ATTRIBUTES_MAPPING \cup Unmapped :
        LET call == GetattrCall(name)
        IN  IF call = "none"
            THEN Finish("__getattr__", name, << >>, GetattrNow(name))
            ELSE Enter("__getattr__", name, << >>, call)

\* wikipedia.py 706-707
exists ==
    /\ pc = "idle"
    /\ LET call == GetattrCall("pageid")
       IN  IF call = "none"
           THEN Finish("exists", "", << >>, ExistsOf(GetattrNow("pageid")))
           ELSE Enter("exists", "", << >>, call)

\* wikipedia.py 709-713
summary ==
    /\ pc = "idle"
    /\ Access("summary", << >>, "structured")

\* wikipedia.py 715-719
sections ==
    /\ pc = "idle"
    /\ Access("sections", << >>, "structured")

\* wikipedia.py 721-725
section_titles ==
    /\ pc = "idle"
    /\ Access("section_titles", << >>, "structured")

\* wikipedia.py 727-730
section_by_title ==
    /\ pc = "idle"
    /\ \E t \in HeadingTitles :
          Access("section_by_title", << Txt(t) >>, "structured")

\* wikipedia.py 732-753: self.summary fetches, self.sections then does not
text ==
    /\ pc = "idle"
    /\ Access("text", << >>, "structured")

\* wikipedia.py 755-759
langlinks ==
    /\ pc = "idle"
    /\ Access("langlinks", << >>, "langlinks")

\* wikipedia.py 761-765
links ==
    /\ pc = "idle"
    /\ Access("links", << >>, "links")

\* wikipedia.py 767-771
backlinks ==
    /\ pc = "idle"
    /\ Access("backlinks", << >>, "backlinks")

\* wikipedia.py 773-777
categories ==
    /\ pc = "idle"
    /\ Access("categories", << >>, "categories")

\* wikipedia.py 779-783
categorymembers ==
    /\ pc = "idle"
    /\ Access("categorymembers", << >>, "categorymembers")

-----------------------------------------------------------------------------
(* What the transport answers: self._query (wikipedia.py 383-407).  A raw
   response is [query, continue]; continue = NoToken stands for a response
   without a 'continue' key.  raw['query']['pages'] holds one page, as the
   record [k, v] of its key and its entry. *)

\* the tokens the response after the responses rs may carry: none, or the
\* next one
Continues(rs) ==
    {NoToken} \cup (IF Len(rs) < MaxCont THEN {Token(Len(rs) + 1)} ELSE {})

PagesRaw(k, entry, c) ==
    [query |-> [pages |-> [k |-> k, v |-> entry]], continue |-> c]

ListRaw(field, items, c) ==
    [query |-> (field :> items), continue |-> c]

InfoBags == UNION {[S -> {"i"}] : S \in SUBSET InfoAttributes}
LanglinkLists == {<< Langlink("cs") >>}
CategoryLists == {<< Item("Category:C1") >>}
ItemLists == ListsUpTo({Item(t) : t \in wiki_titles}, MaxItems)

StructuredRaws ==
    {PagesRaw(MissingKey, MissingPage, NoToken)}
    \cup {PagesRaw(KnownKey, Merge(KnownPage, [extract |-> e]), NoToken) :
            e \in Extracts}

InfoRaws ==
    {PagesRaw(MissingKey, MissingPage, NoToken)}
    \cup {PagesRaw(KnownKey, Merge(KnownPage, bag), NoToken) : bag \in InfoBags}

LanglinksRaws ==
    {PagesRaw(MissingKey, MissingPage, NoToken)}
    \cup {PagesRaw(KnownKey, Merge(KnownPage, [langlinks |-> l]), NoToken) :
            l \in LanglinkLists}

CategoriesRaws ==
    {PagesRaw(MissingKey, MissingPage, NoToken)}
    \cup {PagesRaw(KnownKey, Merge(KnownPage, [categories |-> l]), NoToken) :
            l \in CategoryLists}

\* the first response of the links group (rs empty), and a later one
LinksRaws(rs) ==
    (IF rs = << >> THEN {PagesRaw(MissingKey, MissingPage, NoToken)} ELSE {})
    \cup {PagesRaw(KnownKey, Merge(KnownPage, [links |-> l]), c) :
            l \in ItemLists, c \in Continues(rs)}

ListRaws(field, rs) ==
    {ListRaw(field, l, c) : l \in ItemLists, c \in Continues(rs)}

\* history of one response: its token and the titles of its items
Heard(c, items) ==
    /\ responses' = Append(responses, c)
    /\ pages' = Append(pages, {items[i].title : i \in DOMAIN items})

\* a follow-up request that keeps the token of the first continuation
FirstParams(old, raw) == IF old = NoToken THEN raw.continue ELSE old

\* the parameter the follow-up request carries (wikipedia.py 282, 314, 374):
\* params[<x>continue] = raw['continue'][<x>continue]
NextParams(old, raw) == raw.continue

\* 'continue' in raw (wikipedia.py 281, 313, 373)
HasContinue(raw) == raw.continue # NoToken

\* one pass of a pagination loop, up to its request (wikipedia.py 282-286,
\* 314-318, 374-378), or the end of the loop
Loop(raw) ==
    IF HasContinue(raw)
    THEN /\ params' = NextParams(params, raw)
         /\ requests' = Append(requests, NextParams(params, raw))
         /\ pc' = "waiting"
    ELSE /\ pc' = "committing"
         /\ UNCHANGED << params, requests >>

-----------------------------------------------------------------------------
(* The group fetchers of Wikipedia, from the response on *)

\* wikipedia.py 175-183
Wikipedia_structured ==
    /\ pc = "waiting" /\ cur.call = "structured"
    /\ \E raw \in StructuredRaws :
        LET a0 == _common_attributes(raw.query, _attributes)
            k == raw.query.pages.k
            e == raw.query.pages.v
        IN  /\ UNCHANGED << _langlinks, _links, _backlinks, _categories,
                            _categorymembers, treeVars, envVars, filterVars, invoked >>
            /\ IF k = MissingKey
               THEN /\ _attributes' = MissingAttributes(a0)
                    /\ notfound' = notfound \cup {"structured"}
                    /\ _fetch("structured")
               ELSE \* _build_structured, up to its loop (wikipedia.py 414-417)
                    /\ _attributes' = _common_attributes(e, a0)
                    /\ extract' = e.extract
                    /\ section_stack' = << 0 >>
                    /\ section' = 0
                    /\ prev_pos' = 0
                    /\ nmatch' = 0
                    /\ pc' = "building"
                    /\ UNCHANGED << notfound, cur, result, _called, params, v,
                                    requests, responses, pages >>

\* wikipedia.py 215-223
Wikipedia_info ==
    /\ pc = "waiting" /\ cur.call = "info"
    /\ \E raw \in InfoRaws :
        LET a0 == _common_attributes(raw.query, _attributes)
            k == raw.query.pages.k
            e == raw.query.pages.v
        IN  /\ _attributes' = IF k = MissingKey
                              THEN MissingAttributes(a0)
                              ELSE _build_info(e, a0)
            /\ notfound' = IF k = MissingKey
                           THEN notfound \cup {"info"} ELSE notfound
            /\ UNCHANGED << _langlinks, _links, _backlinks, _categories,
                            _categorymembers, treeVars, envVars, filterVars, invoked >>
            /\ _fetch("info")

\* wikipedia.py 245-253
Wikipedia_langlinks ==
    /\ pc = "waiting" /\ cur.call = "langlinks"
    /\ \E raw \in LanglinksRaws :
        LET a0 == _common_attributes(raw.query, _attributes)
            k == raw.query.pages.k
            e == raw.query.pages.v
        IN  /\ _attributes' = IF k = MissingKey
                              THEN MissingAttributes(a0)
                              ELSE _common_attributes(e, a0)
            /\ _langlinks' = IF k = MissingKey THEN _langlinks
                             ELSE BuildLanglinks(_langlinks, e.langlinks)
            /\ notfound' = IF k = MissingKey
                           THEN notfound \cup {"langlinks"} ELSE notfound
            /\ UNCHANGED << _links, _backlinks, _categories,
                            _categorymembers, treeVars, envVars, filterVars, invoked >>
            /\ _fetch("langlinks")

\* wikipedia.py 342-350
Wikipedia_categories ==
    /\ pc = "waiting" /\ cur.call = "categories"
    /\ \E raw \in CategoriesRaws :
        LET a0 == _common_attributes(raw.query, _attributes)
            k == raw.query.pages.k
            e == raw.query.pages.v
        IN  /\ _attributes' = IF k = MissingKey
                              THEN MissingAttributes(a0)
                              ELSE _common_attributes(e, a0)
            /\ _categories' = IF k = MissingKey THEN _categories
                              ELSE BuildPages(_categories, e.categories,
                                              _attributes'.language)
            /\ notfound' = IF k = MissingKey
                           THEN notfound \cup {"categories"} ELSE notfound
            /\ UNCHANGED << _langlinks, _links, _backlinks,
                            _categorymembers, treeVars, envVars, filterVars, invoked >>
            /\ _fetch("categories")

\* wikipedia.py 274-287: a response of the links group
Wikipedia_links ==
    /\ pc = "waiting" /\ cur.call = "links"
    /\ \E raw \in LinksRaws(responses) :
        LET first == responses = << >>
            k == raw.query.pages.k
            e == raw.query.pages.v
            a0 == IF first THEN _common_attributes(raw.query, _attributes)
                  ELSE _attributes
        IN  /\ UNCHANGED << _langlinks, _links, _backlinks, _categories,
                            _categorymembers, treeVars, envVars, filterVars, invoked,
                            extract, section_stack, section, prev_pos, nmatch >>
            /\ IF k = MissingKey
               THEN /\ _attributes' = MissingAttributes(a0)
                    /\ notfound' = notfound \cup {"links"}
                    /\ _fetch("links")
               ELSE /\ v' = IF first THEN e
                            ELSE [v EXCEPT !.links = Accumulate(@, e.links)]
                    /\ _attributes' = a0
                    /\ Heard(raw.continue, e.links)
                    /\ Loop(raw)
                    /\ UNCHANGED << notfound, cur, result, _called >>

\* wikipedia.py 289 and 495-509, then the return through _fetch
_build_links ==
    /\ pc = "committing" /\ cur.call = "links"
    /\ _attributes' = _common_attributes(v, _attributes)
    /\ _links' = BuildPages(_links, v.links, _attributes'.language)
    /\ UNCHANGED << _langlinks, _backlinks, _categories, _categorymembers,
                    treeVars, envVars, filterVars, invoked, notfound >>
    /\ _fetch("links")

\* wikipedia.py 311-319: a response of the backlinks group
Wikipedia_backlinks ==
    /\ pc = "waiting" /\ cur.call = "backlinks"
    /\ \E raw \in ListRaws("backlinks", responses) :
        LET first == responses = << >>
        IN  /\ _attributes' = IF first
                              THEN _common_attributes(raw.query, _attributes)
                              ELSE _attributes
            /\ v' = IF first THEN raw.query
                    ELSE [v EXCEPT !.backlinks =
                                      Accumulate(@, raw.query.backlinks)]
            /\ Heard(raw.continue, raw.query.backlinks)
            /\ Loop(raw)
            /\ UNCHANGED << _langlinks, _links, _backlinks, _categories,
                            _categorymembers, treeVars, envVars, filterVars, invoked,
                            notfound, cur, result, _called,
                            extract, section_stack, section, prev_pos, nmatch >>

\* wikipedia.py 320 and 511-525, then the return through _fetch
_build_backlinks ==
    /\ pc = "committing" /\ cur.call = "backlinks"
    /\ _attributes' = _common_attributes(v, _attributes)
    /\ _backlinks' = BuildPages(_backlinks, v.backlinks, _attributes'.language)
    /\ UNCHANGED << _langlinks, _links, _categories, _categorymembers,
                    treeVars, envVars, filterVars, invoked, notfound >>
    /\ _fetch("backlinks")

\* wikipedia.py 371-379: a response of the categorymembers group
Wikipedia_categorymembers ==
    /\ pc = "waiting" /\ cur.call = "categorymembers"
    /\ \E raw \in ListRaws("categorymembers", responses) :
        LET first == responses = << >>
        IN  /\ _attributes' = IF first
                              THEN _common_attributes(raw.query, _attributes)
                              ELSE _attributes
            /\ v' = IF first THEN raw.query
                    ELSE [v EXCEPT !.categorymembers =
                               Accumulate(@, raw.query.categorymembers)]
            /\ Heard(raw.continue, raw.query.categorymembers)
            /\ Loop(raw)
            /\ UNCHANGED << _langlinks, _links, _backlinks, _categories,
                            _categorymembers, treeVars, envVars, filterVars, invoked,
                            notfound, cur, result, _called,
                            extract, section_stack, section, prev_pos, nmatch >>

\* wikipedia.py 381 and 544-561, then the return through _fetch
_build_categorymembers ==
    /\ pc = "committing" /\ cur.call = "categorymembers"
    /\ _attributes' = _common_attributes(v, _attributes)
    /\ _categorymembers' = BuildMembers(_categorymembers, v.categorymembers,
                                        _attributes'.language)
    /\ UNCHANGED << _langlinks, _links, _backlinks, _categories,
                    treeVars, envVars, filterVars, invoked, notfound >>
    /\ _fetch("categorymembers")

-----------------------------------------------------------------------------
(* Wikipedia._build_structured (wikipedia.py 409-454), one match at a time *)

\* an index that keeps the first section of a title
RecordFirst(mapping, title, id) ==
    IF title \in DOMAIN mapping THEN mapping
    ELSE Merge(mapping, [t \in {title} |-> id])

\* wikipedia.py 448: page._section_mapping[section._title] = section
RecordSection(mapping, title, id) == Merge(mapping, [t \in {title} |-> id])

\* a title list that keeps one entry per distinct title
RecordTitleOnce(titles, title) ==
    IF \E i \in DOMAIN titles : titles[i] = title THEN titles
    ELSE Append(titles, title)

\* wikipedia.py 449: page._section_titles.append(section._title)
RecordTitle(titles, title) == Append(titles, title)

\* the text span a match closes: wikipedia.py 425 and 427
SpanBefore(e, summ, prev, start) ==
    IF SummaryUnset(summ) THEN Slice(e, 0, start) ELSE Slice(e, prev, start)

\* one pass of the loop of wikipedia.py 419-449
_build_structured_match ==
    /\ pc = "building"
    /\ nmatch < Len(Matches(extract))
    /\ LET m == Matches(extract)[nmatch + 1]
           c == cleanup(extract_format,
                        SpanBefore(extract, _summary, prev_pos, m - 1))
           summary1 == IF SummaryUnset(_summary) THEN c.text ELSE _summary
           nodes1 == IF SummaryUnset(_summary) THEN nodes
                     ELSE [nodes EXCEPT ![section].text = c.text]
           cs == _create_section(extract_format, extract[m])
           id == Len(nodes) + 1
           r == Reconcile(section_stack, cs.sec.level + 1, id)
           parent == ParentOf(r.stack)
           nodes2 == Append(nodes1, cs.sec)
       IN  /\ UNCHANGED << _attributes, _langlinks, _links, _backlinks,
                           _categories, _categorymembers, envVars, filterVars,
                           invoked, notfound >>
           /\ IF c.err # "ok"
              THEN /\ UNCHANGED treeVars
                   /\ Raise(c.err)
              ELSE IF cs.err # "ok" \/ r.err # "ok"
              THEN /\ _summary' = summary1
                   /\ nodes' = nodes1
                   /\ UNCHANGED << _sections, _section_mapping,
                                   _section_titles >>
                   /\ Raise(IF cs.err # "ok" THEN cs.err ELSE r.err)
              ELSE /\ _summary' = summary1
                   /\ section' = id
                   /\ section_stack' = r.stack
                   /\ nodes' = IF parent = 0 THEN nodes2
                               ELSE [nodes2 EXCEPT ![parent].sections =
                                                       Append(@, id)]
                   /\ _sections' = IF parent = 0 THEN Append(_sections, id)
                                   ELSE _sections
                   /\ prev_pos' = m
                   /\ _section_mapping' =
                         RecordSection(_section_mapping, cs.sec.title, id)
                   /\ _section_titles' =
                         RecordTitle(_section_titles, cs.sec.title)
                   /\ nmatch' = nmatch + 1
                   /\ UNCHANGED << pc, cur, result, _called, extract, params,
                                   v, requests, responses, pages >>

\* wikipedia.py 451-454, then the return through _structured and _fetch
_build_structured_end ==
    /\ pc = "building"
    /\ nmatch = Len(Matches(extract))
    /\ LET c == cleanup(extract_format, Slice(extract, prev_pos, Len(extract)))
       IN  /\ UNCHANGED << _attributes, _langlinks, _links, _backlinks,
                           _categories, _categorymembers, envVars, filterVars,
                           invoked, notfound, _summary, _sections,
                           _section_mapping, _section_titles >>
           /\ IF prev_pos > 0 /\ c.err # "ok"
              THEN /\ UNCHANGED nodes
                   /\ Raise(c.err)
              ELSE /\ nodes' = IF prev_pos > 0
                               THEN [nodes EXCEPT ![section].text = c.text]
                               ELSE nodes
                   /\ _fetch("structured")

-----------------------------------------------------------------------------
(* The page of wiki.page('Test_1') (wikipedia.py 146-156, 656-692) *)

FreshPage ==
    /\ _called = [g \in Groups |-> FALSE]
    /\ _attributes = [title |-> "Test_1", ns |-> 0, language |-> "en"]
    /\ _summary = << >>
    /\ _sections = << >>
    /\ _section_mapping = EmptyMap
    /\ _section_titles = << >>
    /\ _langlinks = EmptyMap
    /\ _links = EmptyMap
    /\ _backlinks = EmptyMap
    /\ _categories = EmptyMap
    /\ _categorymembers = EmptyMap
    /\ nodes = << >>

\* no accessor is running
Idle ==
    /\ pc = "idle"
    /\ cur = NoCur
    /\ params = NoToken
    /\ v = << >>
    /\ extract = << >>
    /\ section_stack = << >>
    /\ section = 0
    /\ prev_pos = 0
    /\ nmatch = 0
    /\ requests = << >>
    /\ responses = << >>
    /\ pages = << >>
    /\ rawdata = << >>
    /\ parser = NewParser
    /\ fed = 0

\* the wiki of the tests' setUp (tests/extract_natlang_format_test.py 11-15)
\* and a fresh page of it, which nothing links to and which links to nothing
Init ==
    /\ FreshPage
    /\ Idle
    /\ extract_format = "NATLANG"
    /\ wiki_titles = {}
    /\ invoked = [g \in Groups |-> 0]
    /\ notfound = {}
    /\ result = NoResult

Next ==
    \/ __getattr__
    \/ exists
    \/ summary
    \/ sections
    \/ section_titles
    \/ section_by_title
    \/ text
    \/ langlinks
    \/ links
    \/ backlinks
    \/ categories
    \/ categorymembers
    \/ Wikipedia_structured
    \/ Wikipedia_info
    \/ Wikipedia_langlinks
    \/ Wikipedia_categories
    \/ Wikipedia_links
    \/ Wikipedia_backlinks
    \/ Wikipedia_categorymembers
    \/ _build_links
    \/ _build_backlinks
    \/ _build_categorymembers
    \/ _build_structured_match
    \/ _build_structured_end

Spec == Init /\ [][Next]_vars

-----------------------------------------------------------------------------
(* The paginated groups on their own, on a wiki whose lists have items *)

InitPaging ==
    /\ FreshPage
    /\ Idle
    /\ extract_format = "NATLANG"
    /\ wiki_titles = {"L1", "L2"}
    /\ invoked = [g \in Groups |-> 0]
    /\ notfound = {}
    /\ result = NoResult

NextPaging ==
    \/ links
    \/ backlinks
    \/ categorymembers
    \/ Wikipedia_links
    \/ Wikipedia_backlinks
    \/ Wikipedia_categorymembers
    \/ _build_links
    \/ _build_backlinks
    \/ _build_categorymembers

SpecPaging == InitPaging /\ [][NextPaging]_vars

-----------------------------------------------------------------------------
(* The builder on its own: page._fetch('structured') of a fresh page, as in
   test_title_after_fetching, at the point where _build_structured starts on
   the extract of the response *)

\* what the heading pattern of the format can match: WIKI_PATTERN needs two
\* '=' at least (wikipedia.py 70-72), HTML_PATTERN takes <h1> on (73-79)
BodyTokens(fmt) ==
    {Txt(c) : c \in Chars}
    \cup {Heading(l, t) : l \in (IF fmt = "WIKI" THEN 2 ELSE 1)..MaxLevel,
                          t \in HeadingTitles}

Bodies(fmt) == UNION {[1..n -> BodyTokens(fmt)] : n \in 0..MaxBody}

InitBuild ==
    /\ FreshPage
    /\ extract_format \in Formats
    /\ wiki_titles = {}
    /\ pc = "building"
    /\ cur = [op |-> "_fetch", name |-> "", title |-> << >>,
              call |-> "structured"]
    /\ params = NoToken
    /\ v = << >>
    /\ extract \in Bodies(extract_format)
    /\ rawdata = << >>
    /\ parser = NewParser
    /\ fed = 0
    /\ section_stack = << 0 >>
    /\ section = 0
    /\ prev_pos = 0
    /\ nmatch = 0
    /\ invoked = [g \in Groups |-> IF g = "structured" THEN 1 ELSE 0]
    /\ requests = << NoToken >>
    /\ responses = << >>
    /\ pages = << >>
    /\ notfound = {}
    /\ result = Outcome("_fetch", "", << >>,
                        [kind |-> "pending", value |-> 0], 1)

NextBuild ==
    \/ _build_structured_match
    \/ _build_structured_end

SpecBuild == InitBuild /\ [][NextBuild]_vars

-----------------------------------------------------------------------------
(* natlang_html_cleanup on its own (wikipedia.py 102-105, natlang.py): the
   parser is fed the fragment event by event *)

FilterEvents ==
    {Txt(c) : c \in Chars}
    \cup {StartTag(t) : t \in Tags}
    \cup {EndTag(t) : t \in Tags}
    \cup {StartEndTag("br")}

Fragments == UNION {[1..n -> FilterEvents] : n \in 0..MaxHtml}

\* nl = HtmlParser(); nl.feed(html) is entered
InitFilter ==
    /\ FreshPage
    /\ extract_format = "NATLANG"
    /\ wiki_titles = {}
    /\ pc = "feeding"
    /\ cur = NoCur
    /\ params = NoToken
    /\ v = << >>
    /\ extract = << >>
    /\ section_stack = << >>
    /\ section = 0
    /\ prev_pos = 0
    /\ nmatch = 0
    /\ rawdata \in Fragments
    /\ parser = NewParser
    /\ fed = 0
    /\ invoked = [g \in Groups |-> 0]
    /\ requests = << >>
    /\ responses = << >>
    /\ pages = << >>
    /\ notfound = {}
    /\ result = Outcome("natlang_html_cleanup", "", << >>,
                        [kind |-> "pending", value |-> 0], 0)

\* the tag, or the text, of the event HTMLParser.feed handles next
NextEvent == rawdata[fed + 1].title

\* HTMLParser.feed hands the next event, of the kind k, to its handler, which
\* leaves the parser as handled
Dispatch(k, handled) ==
    /\ parser.err = "ok"
    /\ fed < Len(rawdata)
    /\ rawdata[fed + 1].k = k
    /\ parser' = handled
    /\ fed' = fed + 1
    /\ UNCHANGED << pageVars, treeVars, buildVars, histVars, envVars,
                    pc, cur, params, v, rawdata, result >>

\* natlang.py 10-15
HtmlParser_handle_starttag ==
    /\ pc = "feeding"
    /\ Dispatch("s", handle_starttag(parser, NextEvent))

\* natlang.py 17-18
HtmlParser_handle_endtag ==
    /\ pc = "feeding"
    /\ Dispatch("e", handle_endtag(parser, NextEvent))

\* natlang.py 20-21
HtmlParser_handle_startendtag ==
    /\ pc = "feeding"
    /\ Dispatch("b", handle_startendtag(parser, NextEvent))

\* natlang.py 23-25
HtmlParser_handle_data ==
    /\ pc = "feeding"
    /\ Dispatch("t", handle_data(parser, NextEvent))

\* wikipedia.py 105: return nl.get_text(), or the exception of a handler
\* leaves natlang_html_cleanup
HtmlParser_get_text ==
    /\ pc = "feeding"
    /\ fed = Len(rawdata) \/ parser.err # "ok"
    /\ pc' = "idle"
    /\ result' = Outcome("natlang_html_cleanup", "", << >>,
                         IF parser.err = "ok" THEN Value(get_text(parser))
                         ELSE Raised(parser.err), 0)
    /\ UNCHANGED << pageVars, treeVars, buildVars, histVars, envVars,
                    filterVars, cur, params, v >>

NextFilter ==
    \/ HtmlParser_handle_starttag
    \/ HtmlParser_handle_endtag
    \/ HtmlParser_handle_startendtag
    \/ HtmlParser_handle_data
    \/ HtmlParser_get_text

SpecFilter == InitFilter /\ [][NextFilter]_vars

-----------------------------------------------------------------------------
(* Collection groups over a transport that can fail: links and backlinks,
   which paginate, and langlinks, which sends one request *)

\* requests.get, or r.json(), raises inside self._query (wikipedia.py
\* 399-407) for the request that is under way, the first of the group or a
\* continuation: nothing catches it in _query, in the group fetcher or in
\* _fetch (wikipedia.py 785-788), so it leaves the accessor
_query_raises ==
    /\ pc = "waiting"
    /\ Raise("ConnectionError")
    /\ UNCHANGED << _attributes, _langlinks, _links, _backlinks, _categories,
                    _categorymembers, treeVars, envVars, filterVars,
                    invoked, notfound >>

NextTransport ==
    \/ langlinks
    \/ links
    \/ backlinks
    \/ Wikipedia_langlinks
    \/ Wikipedia_links
    \/ Wikipedia_backlinks
    \/ _build_links
    \/ _build_backlinks
    \/ _query_raises

SpecTransport == InitPaging /\ [][NextTransport]_vars

-----------------------------------------------------------------------------
(* Properties of the lazy resolver, checked under Spec *)

\* a step in which __getattr__(name) is called on the idle page
GetattrStep(name) ==
    /\ pc = "idle"
    /\ result'.op = "__getattr__"
    /\ result'.name = name

\* the positions of the groups of the list that are not called yet
Uncalled(calls) == {i \in DOMAIN calls : ~_called[calls[i]]}

\* C1: each of the seven call groups is invoked at most once; once the flag of
\* a group is true it stays true and the group is not invoked again.
C1_InvokedAtMostOnce ==
    [][\A g \in Groups :
          /\ invoked'[g] <= 1
          /\ _called[g] => (_called'[g] /\ invoked'[g] = invoked[g])]_vars

\* C2: a read of an attribute that is in the cache returns the cached value
\* at once, invokes no group and leaves every flag, the cache and every
\* collection as they were.
C2_CachedRead ==
    [][\A name \in DOMAIN ATTRIBUTES_MAPPING :
          (GetattrStep(name) /\ name \in DOMAIN _attributes) =>
              /\ pc' = "idle"
              /\ result'.kind = "value"
              /\ result'.nreq = 0
              /\ result'.value = _attributes[name]
              /\ invoked' = invoked
              /\ UNCHANGED << pageVars, treeVars >>]_vars

\* the title is read from the page nothing was fetched for
C2_Witness ==
    /\ pc = "idle"
    /\ result.op = "__getattr__"
    /\ result.name = "title"
    /\ result.kind = "value"
    /\ result.value = "Test_1"
    /\ \A g \in Groups : ~_called[g] /\ invoked[g] = 0

IdentifierRead ==
    /\ pc = "idle"
    /\ \/ result'.op = "exists"
       \/ result'.op = "__getattr__" /\ result'.name = "pageid"

C5_MissingReadNeverRaises ==
    \A name \in InfoAttributes :
        (/\ pc = "idle"
         /\ result.op = "__getattr__"
         /\ result.name = name
         /\ "info" \in notfound) =>
            /\ result.kind \in {"value", "None"}
            /\ _called["info"]
            /\ invoked["info"] = 1

\* C6: after exists() on a fresh page, the cached identifier is -1 exactly
\* when the response of the info group carried page key -1, and exists()
\* gave false exactly then.
C6_ExistsIffKnown ==
    (/\ pc = "idle"
     /\ result.op = "exists"
     /\ result.nreq = 1
     /\ invoked = [g \in Groups |-> IF g = "info" THEN 1 ELSE 0]) =>
        /\ result.kind = "value"
        /\ "pageid" \in DOMAIN _attributes
        /\ (_attributes.pageid = -1) <=> ("info" \in notfound)
        /\ (result.value = FALSE) <=> ("info" \in notfound)

\* exists() on the fresh page, answered with page key -1
C6_Witness ==
    /\ pc = "idle"
    /\ result.op = "exists"
    /\ result.nreq = 1
    /\ result.kind = "value"
    /\ result.value = FALSE
    /\ _attributes.pageid = -1
    /\ notfound = {"info"}
    /\ invoked = [g \in Groups |-> IF g = "info" THEN 1 ELSE 0]

-----------------------------------------------------------------------------
(* Properties of the paginated groups, checked under SpecPaging *)

Paginated == {"links", "backlinks", "categorymembers"}

\* the collection of the page a paginated group fills (wikipedia.py 669-673)
CollectionOf(g) ==
    CASE g = "links" -> _links
      [] g = "backlinks" -> _backlinks
      [] g = "categorymembers" -> _categorymembers

\* C7: the flag of a paginated group is false while its fetch is under way;
\* it turns true only in the step that commits the collection, after the
\* response without a token, and the committed collection then holds a
\* reference for every item title of every response.
C7_CommittedBeforeCalled ==
    [][/\ pc # "idle" => ~_called[cur.call]
       /\ pc' # "idle" => ~_called'[cur'.call]
       /\ \A g \in Paginated :
             (~_called[g] /\ _called'[g]) =>
                 /\ cur.call = g
                 /\ pc' = "idle"
                 /\ \/ g \in notfound'
                    \/ /\ pc = "committing"
                       /\ Len(responses) = Len(requests)
                       /\ responses[Len(responses)] = NoToken
                       /\ \A t \in UNION Range(pages) :
                             /\ t \in DOMAIN CollectionOf(g)'
                             /\ CollectionOf(g)'[t].title = t]_vars

\* links was fetched with three requests and holds the items of all responses
C7_Witness ==
    /\ pc = "idle"
    /\ result.op = "links"
    /\ result.nreq = 3
    /\ _called["links"]
    /\ DOMAIN _links = {"L1", "L2"}

\* C8: within one fetch of a paginated group the first request carries no
\* token and every follow-up request the token of the response before it;
\* there is one request more than responses with a token; a response without
\* a token is the last one, and no request follows it.
C8_SequentialContinuation ==
    (pc \in {"waiting", "committing"} /\ cur.call \in Paginated) =>
        /\ requests[1] = NoToken
        /\ Len(requests) =
              1 + Cardinality({i \in DOMAIN responses : responses[i] # NoToken})
        /\ \A i \in 2..Len(requests) :
              /\ i - 1 \in DOMAIN responses
              /\ requests[i] = responses[i - 1]
        /\ \A i \in DOMAIN responses :
              responses[i] = NoToken => (i = Len(responses) /\ pc = "committing")
        /\ pc = "waiting" => Len(responses) = Len(requests) - 1
        /\ pc = "committing" =>
              /\ Len(responses) = Len(requests)
              /\ responses[Len(responses)] = NoToken

\* two responses carried a token, the third none: three requests were made
C8_Witness ==
    /\ pc = "committing"
    /\ Len(requests) = 3
    /\ responses = << Token(1), Token(2), NoToken >>

-----------------------------------------------------------------------------
(* Properties of the section-tree builder, checked under SpecBuild *)

\* the filtered text of extract[a:b]
Filtered(a, b) == cleanup(extract_format, Slice(extract, a, b)).text

\* C9: the summary is set once, by the first match, to the filtered text
\* before that match; no later match changes it, also when it is empty.
C9_SummarySetOnce ==
    [][pc = "building" =>
          /\ (nmatch = 0 /\ nmatch' = 1) =>
                _summary' = Filtered(0, Matches(extract)[1] - 1)
          /\ nmatch >= 1 => _summary' = _summary]_vars

\* C10: when the build returns, the text of every section is the filtered
\* span from the end of its heading to the start of the next match, and that
\* of the last section the span to the end of the body.
C10_SectionTextSpans ==
    [][(pc = "building" /\ pc' = "idle" /\ result'.kind = "value") =>
          LET m == Matches(extract)
          IN  /\ Len(nodes') = Len(m)
              /\ \A i \in DOMAIN m :
                    nodes'[i].text =
                       Filtered(m[i], IF i < Len(m) THEN m[i + 1] - 1
                                      ELSE Len(extract))]_vars

\* C11: when the body has no heading match, the build leaves the whole
\* filtered body as the summary, and no section, an empty title index and an
\* empty title list.
C11_NoMatchWholeBodySummary ==
    [][(pc = "building" /\ pc' = "idle" /\ Matches(extract) = << >>) =>
          /\ result'.kind = "value"
          /\ _summary' = Filtered(0, Len(extract))
          /\ nodes' = << >>
          /\ _sections' = << >>
          /\ DOMAIN _section_mapping' = {}
          /\ _section_titles' = << >>]_vars

\* the cleaned title of the i-th heading match of the body
TitleOfMatch(i) ==
    cleanup(extract_format, << Txt(extract[Matches(extract)[i]].title) >>).text

\* C12: the title list has one entry per heading match, in source order, and
\* as many entries as section nodes were created, whatever the depths of the
\* headings are.
C12_TitleListPerMatch ==
    [][pc = "building" =>
          /\ Len(_section_titles) = nmatch
          /\ Len(nodes) = nmatch
          /\ \A i \in 1..nmatch :
                /\ _section_titles[i] = TitleOfMatch(i)
                /\ nodes[i].title = TitleOfMatch(i)
          /\ pc' = "idle" =>
                /\ result'.kind = "value"
                /\ Len(_section_titles) = Len(Matches(extract))
                /\ _section_titles' = _section_titles
                /\ Len(nodes') = Len(_section_titles')]_vars

\* a body of four headings, two of them with the same title and at three
\* depths, was built: four titles and four nodes
C12_Witness ==
    /\ pc = "idle"
    /\ result.kind = "value"
    /\ Len(_section_titles) = MaxBody
    /\ Len(nodes) = MaxBody
    /\ _section_titles[1] = _section_titles[3]
    /\ _section_titles[1] # _section_titles[2]
    /\ {nodes[i].level : i \in DOMAIN nodes} = {0, 1, 2}

\* the elements the section i was appended to as a child (wikipedia.py 442):
\* sections, and 0 for the page
ParentsOf(nds, secs, i) ==
    {j \in DOMAIN nds : \E k \in DOMAIN nds[j].sections :
                            nds[j].sections[k] = i}
    \cup (IF \E k \in DOMAIN secs : secs[k] = i THEN {0} ELSE {})

\* the last section before i whose level is smaller than that of i, which is
\* the nearest shallower section still open at i; 0, the page, if there is none
NearestShallower(nds, i) ==
    LET above == {j \in 1..(i - 1) : nds[j].level < nds[i].level}
    IN  IF above = {} THEN 0
        ELSE CHOOSE j \in above : \A k \in above : k <= j

\* C13, for the wiki format: a heading shallower than the section open before
\* it becomes a child of the nearest shallower section still open, of the page
\* if there is none, and of nothing else.
C13_ShallowerHeadingAttached ==
    [][(extract_format = "WIKI" /\ pc = "building" /\ pc' = "idle") =>
          \A i \in 2..Len(nodes') :
              nodes'[i].level < nodes'[i - 1].level =>
                  ParentsOf(nodes', _sections', i) =
                      {NearestShallower(nodes', i)}]_vars

\* the level _create_section gives the i-th heading match (wikipedia.py 458-463)
LevelOfMatch(i) == extract[Matches(extract)[i]].level - 1

\* a tree's headings start at '==' (<h2>) and none is more than one level
\* deeper than the heading before it
Nested(nds) ==
    /\ nds # << >> => nds[1].level = 1
    /\ \A i \in 2..Len(nds) :
          1 <= nds[i].level /\ nds[i].level <= nds[i - 1].level + 1

C15_BuildNeverRaises ==
    [][pc = "building" =>
          /\ section_stack # << >>
          /\ nmatch <= Len(Matches(extract))
          /\ IF nmatch < Len(Matches(extract))
             THEN /\ LevelOfMatch(nmatch + 1) + 1 >= 1
                  /\ pc' = "building"
                  /\ nmatch' = nmatch + 1
                  /\ section_stack' # << >>
                  /\ Len(section_stack') <= LevelOfMatch(nmatch + 1) + 1
                  /\ Len(nodes') = Len(nodes) + 1
             ELSE /\ pc' = "idle"
                  /\ result'.kind = "value"]_vars

\* a build has returned whose headings jump by three levels down and then by
\* three levels up
C15_Witness ==
    /\ pc = "idle"
    /\ result.kind = "value"
    /\ Len(nodes) >= 3
    /\ nodes[1].level = 0
    /\ nodes[2].level = MaxLevel - 1
    /\ nodes[3].level = 0
    /\ MaxLevel - 1 >= 3

\* the last section created with the title t
LastTitled(nds, t) ==
    CHOOSE i \in DOMAIN nds :
        /\ nds[i].title = t
        /\ \A j \in DOMAIN nds : nds[j].title = t => j <= i

\* C16: when the build returns, the title index has one entry per distinct
\* title, the last section created with that title, which is what
\* section_by_title gives; the title list has every occurrence.
C16_IndexHoldsLastSection ==
    [][(pc = "building" /\ pc' = "idle") =>
          /\ DOMAIN _section_mapping' =
                {nodes'[i].title : i \in DOMAIN nodes'}
          /\ \A t \in DOMAIN _section_mapping' :
                /\ _section_mapping'[t] = LastTitled(nodes', t)
                /\ Returned("section_by_title", t)' =
                      Value(LastTitled(nodes', t))
          /\ _section_titles' =
                [i \in 1..Len(nodes') |-> nodes'[i].title]]_vars

\* three sections were built, the first and the third with the same title:
\* the index has two entries and gives the third section for that title
C16_Witness ==
    /\ pc = "idle"
    /\ result.kind = "value"
    /\ Len(nodes) = 3
    /\ Len(_section_titles) = 3
    /\ nodes[1].title = nodes[3].title
    /\ nodes[1].title # nodes[2].title
    /\ Cardinality(DOMAIN _section_mapping) = 2
    /\ _section_mapping[nodes[1].title] = 3

\* the sections in the order combine visits them (wikipedia.py 738-751), from
\* the list secs on; 0 stands for a recursion that does not end (fuel is the
\* depth still allowed)
RECURSIVE PreOrder(_, _, _)
PreOrder(nds, secs, fuel) ==
    IF secs = << >> THEN << >>
    ELSE IF fuel = 0 THEN << 0 >>
    ELSE << Head(secs) >>
         \o PreOrder(nds, nds[Head(secs)].sections, fuel - 1)
         \o PreOrder(nds, Tail(secs), fuel)

\* C17: the pre-order traversal of the built tree from the root sections of
\* the page visits every created section once, in source order, so that the
\* titles it visits are the title list.
C17_PreOrderIsSourceOrder ==
    [][(pc = "building" /\ pc' = "idle") =>
          LET visited == PreOrder(nodes', _sections', Len(nodes') + 1)
          IN  /\ visited = [i \in 1..Len(nodes') |-> i]
              /\ [i \in 1..Len(visited) |-> nodes'[visited[i]].title] =
                    _section_titles']_vars

-----------------------------------------------------------------------------
(* Properties of the Markup Filter, checked under SpecFilter *)

\* the tags opened and not yet closed after the first i events of a fragment
RECURSIVE OpenAfter(_, _)
OpenAfter(html, i) ==
    IF i = 0 THEN << >>
    ELSE LET open == OpenAfter(html, i - 1)
         IN  CASE html[i].k = "s" -> Append(open, html[i].title)
               [] html[i].k = "e" -> SubSeq(open, 1, Len(open) - 1)
               [] OTHER -> open

\* region markers only, every end tag closes the innermost open tag, and no
\* tag is left open
Balanced(html) ==
    /\ \A i \in DOMAIN html :
          /\ html[i].k \in {"s", "e", "t"}
          /\ html[i].k = "e" =>
                /\ OpenAfter(html, i - 1) # << >>
                /\ OpenAfter(html, i - 1)[Len(OpenAfter(html, i - 1))] =
                      html[i].title
    /\ OpenAfter(html, Len(html)) = << >>

\* the text segments of a fragment that no open math tag encloses, in
\* document order
RECURSIVE OutsideMath(_, _)
OutsideMath(html, i) ==
    IF i = 0 THEN << >>
    ELSE IF /\ html[i].k = "t"
            /\ "math" \notin Range(OpenAfter(html, i - 1))
         THEN Append(OutsideMath(html, i - 1), html[i])
         ELSE OutsideMath(html, i - 1)

FilterReturned ==
    /\ pc = "idle"
    /\ result.op = "natlang_html_cleanup"

\* C18: for a fragment with balanced region markers the filter returns, in
\* document order, exactly the text segments outside every math region; the
\* text of a math region is omitted, the text before and after it is kept
\* as it is.  The event-by-event run and natlang_html_cleanup agree.
C18_OutputIsTextOutsideMath ==
    (FilterReturned /\ Balanced(rawdata)) =>
        /\ result.kind = "value"
        /\ result.value = OutsideMath(rawdata, Len(rawdata))
        /\ natlang_html_cleanup(rawdata).err = "ok"
        /\ natlang_html_cleanup(rawdata).text = result.value

C18_Witness ==
    /\ FilterReturned
    /\ Balanced(rawdata)
    /\ rawdata = << Txt("x"), StartTag("math"), Txt("x"), EndTag("math"),
                    Txt(" ") >>
    /\ result.kind = "value"
    /\ result.value = << Txt("x"), Txt(" ") >>

\* region-start, region-end and text events only
RegionEvents(html) == \A i \in DOMAIN html : html[i].k \in {"s", "e", "t"}

\* C19: whatever sequence of region-start, region-end and text events is
\* fed, balanced or not, the inclusion stack is never empty and the filter
\* never raises
C19_StackNeverEmptyNeverRaises ==
    (result.op = "natlang_html_cleanup" /\ RegionEvents(rawdata)) =>
        /\ parser.include_stack # << >>
        /\ parser.err = "ok"
        /\ result.kind \in {"pending", "value"}

-----------------------------------------------------------------------------
(* Properties of a failing transport, checked under SpecTransport *)

\* the collection of the page a group fills (wikipedia.py 669-673)
GroupCollection(g) ==
    CASE g = "langlinks" -> _langlinks
      [] g = "links" -> _links
      [] g = "backlinks" -> _backlinks
      [] g = "categories" -> _categories
      [] g = "categorymembers" -> _categorymembers

\* the step in which the request under way fails
TransportFails == pc = "waiting" /\ result'.kind = "ConnectionError"

\* the step in which a read starts a group that was started before
StartsAgain == pc = "idle" /\ pc' = "waiting" /\ invoked[cur'.call] >= 1

\* C20: when the transport fails during a request of a group fetch, the
\* first or a continuation, the read that started the fetch raises the
\* failure without another request being sent, the flag of the group stays
\* false and the collection of the group is as it was, empty; the next read
\* of the group starts over with the initial request, without a token and
\* without anything of the failed attempt.
C20_FailureLeavesGroupUnresolved ==
    [][/\ TransportFails =>
            \A g \in {cur.call} :
                /\ pc' = "idle"
                /\ result'.op = cur.op
                /\ result'.nreq = Len(requests)
                /\ ~_called'[g]
                /\ GroupCollection(g)' = GroupCollection(g)
                /\ GroupCollection(g)' = EmptyMap
                /\ invoked' = invoked
       /\ StartsAgain =>
            \A g \in {cur'.call} :
                /\ ~_called[g]
                /\ GroupCollection(g) = EmptyMap
                /\ requests' = << NoToken >>
                /\ params' = NoToken
                /\ responses' = << >>
                /\ v' = << >>]_vars

\* the second request of links, a continuation, has failed
C20_Witness ==
    /\ pc = "idle"
    /\ result.op = "links"
    /\ result.kind = "ConnectionError"
    /\ result.nreq = 2
    /\ invoked["links"] = 1
    /\ ~_called["links"]
    /\ _links = EmptyMap

-----------------------------------------------------------------------------
(* Properties of the stack of the builder, checked under SpecBuild *)

\* the pass of the loop for a heading whose depth d (wikipedia.py 430:
\* sec_level) is smaller than the length of the stack
PopsDeeper(d) ==
    /\ pc = "building"
    /\ nmatch < Len(Matches(extract))
    /\ d = LevelOfMatch(nmatch + 1) + 1
    /\ d < Len(section_stack)
    /\ nmatch' = nmatch + 1

\* C21 as stated: for a heading of depth d smaller than the length of the
\* stack, the entries are popped until d of them are left, the new section is
\* pushed on these, and it is a child of the entry left on top.
C21_PopsUntilLengthIsDepth ==
    [][\A d \in 1..MaxLevel :
          PopsDeeper(d) =>
              /\ Len(section_stack') = d + 1
              /\ SubSeq(section_stack', 1, d) = SubSeq(section_stack, 1, d)
              /\ section_stack'[d + 1] = Len(nodes')
              /\ ParentsOf(nodes', _sections', Len(nodes')) =
                    {section_stack[d]}]_vars

\* C21, amended: for a heading of depth d smaller than the length of the
\* stack, the entries are popped until d - 1 of them are left and the new
\* section is pushed on these, so that the stack has d entries.  The section
\* is appended to the children of one element: for d >= 2 the entry left on
\* top, and for d = 1, where no entry is left, the section itself.
C21_PopsUntilBelowDepth ==
    [][\A d \in 1..MaxLevel :
          PopsDeeper(d) =>
              /\ Len(section_stack') = d
              /\ SubSeq(section_stack', 1, d - 1) =
                    SubSeq(section_stack, 1, d - 1)
              /\ section_stack'[d] = Len(nodes')
              /\ Len(nodes') = Len(nodes) + 1
              /\ ParentsOf(nodes', _sections', Len(nodes')) =
                    {IF d >= 2 THEN section_stack[d - 1]
                     ELSE Len(nodes')}]_vars

\* after '== A ==', '=== B ===', '==== B ====' the heading '== A ==' has
\* popped three entries: the stack holds the page and the fourth section,
\* which is the second child of the page
C21_Witness ==
    /\ pc = "building"
    /\ nmatch = 4
    /\ [i \in 1..4 |-> nodes[i].level] = << 1, 2, 3, 1 >>
    /\ section_stack = << 0, 4 >>
    /\ _sections = << 1, 4 >>
    /\ ParentsOf(nodes, _sections, 4) = {0}

\* the elements a section is below: those it was appended to as a child
\* (wikipedia.py 442), those they were appended to, and so on; 0 is the page
RECURSIVE AncestorsOf(_, _, _, _)
AncestorsOf(nds, secs, i, fuel) ==
    IF fuel = 0 THEN {}
    ELSE LET up == ParentsOf(nds, secs, i)
         IN  up \cup UNION {AncestorsOf(nds, secs, j, fuel - 1) :
                                j \in up \ {0}}

\* C22: throughout a build of headings of positive depth the bottom entry
\* of the stack is the page and is never popped, the stack has at least two
\* entries once a section is pushed, and every section was appended once, to
\* the children of one element other than itself, so that no section is its
\* own child or ancestor and every section is below the page.
C22_SentinelNeverPopped ==
    /\ pc = "building" =>
          /\ section_stack # << >>
          /\ section_stack[1] = 0
          /\ nmatch > 0 =>
                /\ Len(section_stack) >= 2
                /\ section_stack[Len(section_stack)] = Len(nodes)
    /\ \A i \in DOMAIN nodes :
          LET children(j) == IF j = 0 THEN _sections ELSE nodes[j].sections
              appended == {jk \in (0..Len(nodes)) \X (1..Len(nodes)) :
                              /\ jk[2] \in DOMAIN children(jk[1])
                              /\ children(jk[1])[jk[2]] = i}
              above == AncestorsOf(nodes, _sections, i, Len(nodes) + 1)
          IN  /\ Cardinality(appended) = 1
              /\ \A jk \in appended : jk[1] # i
              /\ i \notin above
              /\ 0 \in above

\* C23, for the wiki format: two consecutive headings of equal depth give
\* sections that are children of the same element, whatever the depth is
\* and whatever headings came before them.
C23_EqualDepthSiblings ==
    [][(extract_format = "WIKI" /\ pc = "building" /\ pc' = "idle") =>
          \A i \in 2..Len(nodes') :
              nodes'[i].level = nodes'[i - 1].level =>
                  ParentsOf(nodes', _sections', i) =
                      ParentsOf(nodes', _sections', i - 1)]_vars

-----------------------------------------------------------------------------
(* A property of repeated reads, checked under Spec *)

\* C24: a read of a mapped attribute that follows a read of the same
\* attribute, nothing else being called on the page in between, has the
\* outcome of that read: the same value, or the same error.  Stated for the
\* second reads that return without a request.
C24_RepeatedReadSameOutcome ==
    [][\A name \in DOMAIN ATTRIBUTES_MAPPING :
          (/\ result.op = "__getattr__"
           /\ result.name = name
           /\ GetattrStep(name)
           /\ pc' = "idle") =>
              /\ result'.kind = result.kind
              /\ result'.value = result.value]_vars

-----------------------------------------------------------------------------
(* A property of the stack of flags of the Markup Filter, checked under
   SpecFilter *)

\* C25: while a fragment with balanced region markers is fed, the stack has
\* the seeded flag and one flag per open region, and the flag of a region is
\* 'exclude' exactly when the region or one of the regions open around it
\* is a math region.  So the flag on top is 'exclude' exactly when a math
\* region is open, a region opened inside a math region inherits 'exclude',
\* and the end of a math region brings back the flag that was on top before
\* its start.
C25_TopFlagFollowsOpenMath ==
    (pc = "feeding" /\ Balanced(rawdata)) =>
        LET open == OpenAfter(rawdata, fed)
            st == parser.include_stack
        IN  /\ parser.err = "ok"
            /\ Len(st) = Len(open) + 1
            /\ \A i \in DOMAIN st :
                  st[i] = ("math" \notin Range(SubSeq(open, 1, i - 1)))
            /\ st[Len(st)] = ("math" \notin Range(open))

\* a region was opened inside a math region and has inherited 'exclude';
\* the two end tags are still to come
C25_Witness ==
    /\ pc = "feeding"
    /\ Balanced(rawdata)
    /\ rawdata = << Txt("x"), StartTag("math"), StartTag("p"), EndTag("p"),
                    EndTag("math") >>
    /\ fed = 3
    /\ parser.include_stack = << TRUE, FALSE, FALSE >>

====
